---- MODULE Spec2Model ----
(***************************************************************************)
(* AddTransactionForm (transaction-form.jsx): the transaction draft held   *)
(* by the form, the submission pipeline over the create/update call, the   *)
(* voice command interpreter over a speech-recognition session, and the    *)
(* receipt-scan bridge.                                                    *)
(*                                                                         *)
(* Text is modelled as sequences of one-character strings, so that         *)
(* String.includes, toLowerCase, trim and the two regular expressions of   *)
(* processVoiceCommand are computed character by character.                *)
(***************************************************************************)
EXTENDS Integers, Sequences, FiniteSets, TLC

VARIABLES
    editMode,           \* prop editMode
    defaultValues,      \* useForm defaultValues (what reset() restores)
    editId,             \* searchParams.get("edit")
    mounted,            \* the component is mounted
    recognition,        \* React state `recognition`: "null" or "instance"
    engine,             \* the SpeechRecognition object's own state
    isListening,        \* React state isListening
    voiceStatus,        \* React state voiceStatus
    draft,              \* the form values (react-hook-form)
    calls,              \* create/update calls in flight, each with its payload
    transactionResult,  \* useFetch data
    route,              \* last route pushed on the router
    toasts,             \* notifications raised by the last handler that ran
    thrown              \* exception the last handler ended with, if any

vars == <<editMode, defaultValues, editId, mounted, recognition, engine, isListening,
          voiceStatus, draft, calls, transactionResult, route, toasts, thrown>>

-----------------------------------------------------------------------------
(* Bounds of the model. *)

\* create/update calls that may be in flight at once
MaxInFlight == 2

-----------------------------------------------------------------------------
(* Text literals: the keywords of processVoiceCommand. *)

KwExpense == <<"e", "x", "p", "e", "n", "s", "e">>
KwSpending == <<"s", "p", "e", "n", "d", "i", "n", "g">>
KwIncome == <<"i", "n", "c", "o", "m", "e">>
KwEarning == <<"e", "a", "r", "n", "i", "n", "g">>
KwAmountSp == <<"a", "m", "o", "u", "n", "t", " ">>
KwSpDollars == <<" ", "d", "o", "l", "l", "a", "r", "s">>
KwToday == <<"t", "o", "d", "a", "y">>
KwYesterday == <<"y", "e", "s", "t", "e", "r", "d", "a", "y">>
KwDescriptionSp == <<"d", "e", "s", "c", "r", "i", "p", "t", "i", "o", "n", " ">>
KwAmount == <<"a", "m", "o", "u", "n", "t">>
KwType == <<"t", "y", "p", "e">>
KwAccount == <<"a", "c", "c", "o", "u", "n", "t">>
KwCategory == <<"c", "a", "t", "e", "g", "o", "r", "y">>
KwDate == <<"d", "a", "t", "e">>
KwCategorySp == <<"c", "a", "t", "e", "g", "o", "r", "y", " ">>
KwAccountSp == <<"a", "c", "c", "o", "u", "n", "t", " ">>
KwRecurringYes == <<"r", "e", "c", "u", "r", "r", "i", "n", "g", " ", "y", "e", "s">>
KwSetRecurring == <<"s", "e", "t", " ", "r", "e", "c", "u", "r", "r", "i", "n", "g">>
KwRecurringNo == <<"r", "e", "c", "u", "r", "r", "i", "n", "g", " ", "n", "o">>
KwNotRecurring == <<"n", "o", "t", " ", "r", "e", "c", "u", "r", "r", "i", "n", "g">>
KwDaily == <<"d", "a", "i", "l", "y">>
KwWeekly == <<"w", "e", "e", "k", "l", "y">>
KwMonthly == <<"m", "o", "n", "t", "h", "l", "y">>
KwYearly == <<"y", "e", "a", "r", "l", "y">>
KwSubmit == <<"s", "u", "b", "m", "i", "t">>
KwSaveTransaction == <<"s", "a", "v", "e", " ", "t", "r", "a", "n", "s", "a", "c", "t", "i", "o", "n">>

(* Transcripts the recognition engine may deliver (as spoken, before         *)
(* toLowerCase).                                                             *)
T_hello == <<"h", "e", "l", "l", "o">>
T_typeExpense == <<"t", "y", "p", "e", " ", "e", "x", "p", "e", "n", "s", "e">>
T_typeIncome == <<"T", "y", "p", "e", " ", "I", "n", "c", "o", "m", "e">>
T_expenseAndIncome == <<"e", "x", "p", "e", "n", "s", "e", " ", "a", "n", "d", " ", "i", "n", "c", "o", "m", "e">>
T_incomeNotExpense == <<"I", "n", "c", "o", "m", "e", " ", "n", "o", "t", " ", "e", "x", "p", "e", "n", "s", "e">>
T_earningNotSpending == <<"e", "a", "r", "n", "i", "n", "g", " ", "n", "o", "t", " ", "s", "p", "e", "n", "d", "i", "n", "g">>
T_dollars == <<"1", "2", ".", "5", " ", "d", "o", "l", "l", "a", "r", "s">>
T_today == <<"t", "o", "d", "a", "y">>
T_yesterday == <<"y", "e", "s", "t", "e", "r", "d", "a", "y">>
T_yesterdayToday == <<"y", "e", "s", "t", "e", "r", "d", "a", "y", " ", "n", "o", "t", " ", "t", "o", "d", "a", "y">>
T_descLunch == <<"d", "e", "s", "c", "r", "i", "p", "t", "i", "o", "n", " ", "l", "u", "n", "c", "h", " ", "a", "m", "o", "u", "n", "t", " ", "5", "0">>
T_catFood == <<"c", "a", "t", "e", "g", "o", "r", "y", " ", "f", "o", "o", "d">>
T_catSalary == <<"C", "a", "t", "e", "g", "o", "r", "y", " ", "S", "a", "l", "a", "r", "y">>
T_catRent == <<"c", "a", "t", "e", "g", "o", "r", "y", " ", "r", "e", "n", "t">>
T_accSavings == <<"a", "c", "c", "o", "u", "n", "t", " ", "s", "a", "v", "i", "n", "g", "s">>
T_setRecurring == <<"s", "e", "t", " ", "r", "e", "c", "u", "r", "r", "i", "n", "g">>
T_notRecurring == <<"n", "o", "t", " ", "r", "e", "c", "u", "r", "r", "i", "n", "g">>
T_weekly == <<"w", "e", "e", "k", "l", "y">>
T_weeklyDaily == <<"w", "e", "e", "k", "l", "y", " ", "n", "o", "t", " ", "d", "a", "i", "l", "y">>
T_submit == <<"s", "u", "b", "m", "i", "t">>
T_saveTransaction == <<"S", "a", "v", "e", " ", "T", "r", "a", "n", "s", "a", "c", "t", "i", "o", "n">>
T_amountSubmit == <<"a", "m", "o", "u", "n", "t", " ", "5", "0", " ", "s", "u", "b", "m", "i", "t">>

(* Names, descriptions, amounts and engine error codes. *)
N_Main == <<"M", "a", "i", "n">>
N_Savings == <<"S", "a", "v", "i", "n", "g", "s">>
N_Food == <<"F", "o", "o", "d">>
N_Salary == <<"S", "a", "l", "a", "r", "y">>
D_lunch == <<"l", "u", "n", "c", "h">>
D_coffee == <<"c", "o", "f", "f", "e", "e">>
A_50 == <<"5", "0">>
A_12_5 == <<"1", "2", ".", "5">>
E_noSpeech == <<"n", "o", "-", "s", "p", "e", "e", "c", "h">>
E_notAllowed == <<"n", "o", "t", "-", "a", "l", "l", "o", "w", "e", "d">>
E_network == <<"n", "e", "t", "w", "o", "r", "k">>

Undefined == "undefined"

-----------------------------------------------------------------------------
(* String primitives. *)

\* one character of String.prototype.toLowerCase
LowerChar(c) ==
    CASE c = "A" -> "a"
      [] c = "B" -> "b"
      [] c = "C" -> "c"
      [] c = "D" -> "d"
      [] c = "E" -> "e"
      [] c = "F" -> "f"
      [] c = "G" -> "g"
      [] c = "H" -> "h"
      [] c = "I" -> "i"
      [] c = "J" -> "j"
      [] c = "K" -> "k"
      [] c = "L" -> "l"
      [] c = "M" -> "m"
      [] c = "N" -> "n"
      [] c = "O" -> "o"
      [] c = "P" -> "p"
      [] c = "Q" -> "q"
      [] c = "R" -> "r"
      [] c = "S" -> "s"
      [] c = "T" -> "t"
      [] c = "U" -> "u"
      [] c = "V" -> "v"
      [] c = "W" -> "w"
      [] c = "X" -> "x"
      [] c = "Y" -> "y"
      [] c = "Z" -> "z"
      [] OTHER -> c

ToLowerCase(s) == [i \in 1..Len(s) |-> LowerChar(s[i])]

\* p occurs in s at index i
StartsAt(s, p, i) ==
    /\ i >= 1
    /\ i + Len(p) - 1 <= Len(s)
    /\ SubSeq(s, i, i + Len(p) - 1) = p

\* String.prototype.includes
Includes(s, p) == \E i \in 1..(Len(s) - Len(p) + 1) : StartsAt(s, p, i)

IsSpace(c) == c = " "

RECURSIVE TrimStart(_)
TrimStart(s) ==
    IF s # <<>> /\ IsSpace(Head(s)) THEN TrimStart(Tail(s)) ELSE s

RECURSIVE TrimEnd(_)
TrimEnd(s) ==
    IF s # <<>> /\ IsSpace(s[Len(s)]) THEN TrimEnd(SubSeq(s, 1, Len(s) - 1)) ELSE s

\* String.prototype.trim
Trim(s) == TrimEnd(TrimStart(s))

DigitChars == <<"0", "1", "2", "3", "4", "5", "6", "7", "8", "9">>

IsDigit(c) == \E d \in 1..Len(DigitChars) : DigitChars[d] = c

DigitValue(c) == (CHOOSE d \in 1..Len(DigitChars) : DigitChars[d] = c) - 1

\* the index just after the longest run of digits of s that starts at i
RECURSIVE DigitRunEnd(_, _)
DigitRunEnd(s, i) ==
    IF i <= Len(s) /\ IsDigit(s[i]) THEN DigitRunEnd(s, i + 1) ELSE i

\* \d+(\.\d+)? matched greedily at i: the index just after it, 0 if no match
NumberEnd(s, i) ==
    LET e1 == DigitRunEnd(s, i)
        e2 == DigitRunEnd(s, e1 + 1)
    IN  IF e1 = i THEN 0
        ELSE IF e1 <= Len(s) /\ s[e1] = "." /\ e2 > e1 + 1 THEN e2
        ELSE e1

Min(S) == CHOOSE x \in S : \A y \in S : x <= y

NoMatch == [matched |-> FALSE, text |-> <<>>]

Matched(t) == [matched |-> TRUE, text |-> t]

-----------------------------------------------------------------------------
(* Numbers: a decimal value is its integer part and its fraction digits     *)
(* without trailing zeros; NaN is a value of its own.                       *)

NaN == [nan |-> TRUE, units |-> 0, frac |-> <<>>]

Num(u, f) == [nan |-> FALSE, units |-> u, frac |-> f]

RECURSIVE NatToString(_)
NatToString(n) ==
    IF n < 10 THEN <<DigitChars[n + 1]>>
    ELSE NatToString(n \div 10) \o <<DigitChars[(n % 10) + 1]>>

\* Number.prototype.toString
NumToString(x) ==
    IF x.nan THEN <<"N", "a", "N">>
    ELSE IF x.frac = <<>> THEN NatToString(x.units)
    ELSE NatToString(x.units) \o <<".">> \o x.frac

RECURSIVE DigitsValue(_)
DigitsValue(s) ==
    IF s = <<>> THEN 0
    ELSE 10 * DigitsValue(SubSeq(s, 1, Len(s) - 1)) + DigitValue(s[Len(s)])

RECURSIVE StripZeros(_)
StripZeros(s) ==
    IF s # <<>> /\ s[Len(s)] = "0" THEN StripZeros(SubSeq(s, 1, Len(s) - 1)) ELSE s

\* parseFloat on the texts the amount field holds: leading blanks, digits,
\* an optional fraction; anything after is ignored, no digit at all is NaN
ParseFloat(text) ==
    LET s  == TrimStart(text)
        e1 == DigitRunEnd(s, 1)
        e2 == IF e1 <= Len(s) /\ s[e1] = "." THEN DigitRunEnd(s, e1 + 1) ELSE e1
        int  == SubSeq(s, 1, e1 - 1)
        frac == IF e2 > e1 THEN SubSeq(s, e1 + 1, e2 - 1) ELSE <<>>
    IN  IF int = <<>> /\ frac = <<>> THEN NaN
        ELSE Num(DigitsValue(int), StripZeros(frac))

-----------------------------------------------------------------------------
(* Dates are day numbers. *)

\* new Date(): the current day
Today == 20

\* new Date(text) for the date texts the form is given
ParseDate(text) ==
    CASE text = "2024-01-01" -> 1
      [] text = "2024-01-02" -> 2
      [] OTHER -> 0

-----------------------------------------------------------------------------
(* Props of the component. *)

Accounts ==
    << [id |-> "acc1", name |-> N_Main,    isDefault |-> TRUE],
       [id |-> "acc2", name |-> N_Savings, isDefault |-> FALSE] >>

Categories ==
    << [id |-> "food",   name |-> N_Food,   type |-> "EXPENSE"],
       [id |-> "salary", name |-> N_Salary, type |-> "INCOME"] >>

Types == {"EXPENSE", "INCOME"}

Intervals == {"DAILY", "WEEKLY", "MONTHLY", "YEARLY"}

\* initialData of an edit: an existing transaction
InitialDatas ==
    { [id |-> "tx1", type |-> "INCOME", amount |-> Num(50, <<>>),
       description |-> D_lunch, accountId |-> "acc2", category |-> "salary",
       date |-> "2024-01-02", isRecurring |-> TRUE,
       recurringInterval |-> "WEEKLY"],
      [id |-> "tx2", type |-> "EXPENSE", amount |-> Num(12, <<"5">>),
       description |-> D_coffee, accountId |-> "acc1", category |-> "food",
       date |-> "2024-01-01", isRecurring |-> FALSE,
       recurringInterval |-> Undefined] }

\* a value that passes `if (x)` / `x && ...`
Truthy(x) == x # "" /\ x # Undefined

\* accounts.find((ac) => ac.isDefault)?.id
DefaultAccountId ==
    LET hits == {i \in 1..Len(Accounts) : Accounts[i].isDefault}
    IN  IF hits = {} THEN Undefined ELSE Accounts[Min(hits)].id

\* useForm defaultValues in edit mode
EditDefaults(initialData) ==
    [type              |-> initialData.type,
     amount            |-> NumToString(initialData.amount),
     description       |-> initialData.description,
     accountId         |-> initialData.accountId,
     category          |-> initialData.category,
     date              |-> ParseDate(initialData.date),
     isRecurring       |-> initialData.isRecurring,
     recurringInterval |-> IF Truthy(initialData.recurringInterval)
                           THEN initialData.recurringInterval
                           ELSE Undefined]

\* useForm defaultValues in create mode
CreateDefaults ==
    [type              |-> "EXPENSE",
     amount            |-> <<>>,
     description       |-> <<>>,
     accountId         |-> DefaultAccountId,
     category          |-> Undefined,
     date              |-> Today,
     isRecurring       |-> FALSE,
     recurringInterval |-> Undefined]

\* transactionSchema: what handleSubmit lets through
Valid(d) ==
    /\ d.type \in Types
    /\ d.amount # <<>>
    /\ Truthy(d.accountId)
    /\ Truthy(d.category)
    /\ d.isRecurring => d.recurringInterval \in Intervals

\* categories.filter((category) => category.type === type)
FilteredCategories(type) ==
    {Categories[i].id : i \in {j \in 1..Len(Categories) : Categories[j].type = type}}

-----------------------------------------------------------------------------
(* Notifications and status texts: a fixed text and the value spliced in.   *)

Msg(text, arg) == [text |-> text, arg |-> arg]

Plain(text) == Msg(text, <<>>)

-----------------------------------------------------------------------------
(* processVoiceCommand, rule by rule, on the lower-cased transcript t.      *)

\* the type rule with its two branches swapped
TypeCommandIncomeFirst(t) ==
    IF Includes(t, KwIncome) \/ Includes(t, KwEarning) THEN "INCOME"
    ELSE IF Includes(t, KwExpense) \/ Includes(t, KwSpending) THEN "EXPENSE"
    ELSE Undefined

\* Type commands
TypeCommand(t) ==
    IF Includes(t, KwExpense) \/ Includes(t, KwSpending) THEN "EXPENSE"
    ELSE IF Includes(t, KwIncome) \/ Includes(t, KwEarning) THEN "INCOME"
    ELSE Undefined

\* /amount (\d+(\.\d+)?)|(\d+(\.\d+)?) dollars/ : the leftmost match, and
\* amountMatch[1] || amountMatch[3]
AmountAlt1(t, i) ==
    StartsAt(t, KwAmountSp, i) /\ NumberEnd(t, i + Len(KwAmountSp)) # 0

AmountAlt2(t, i) ==
    NumberEnd(t, i) # 0 /\ StartsAt(t, KwSpDollars, NumberEnd(t, i))

AmountMatch(t) ==
    LET hits == {i \in 1..Len(t) : AmountAlt1(t, i) \/ AmountAlt2(t, i)}
        i    == Min(hits)
        from == i + Len(KwAmountSp)
    IN  IF hits = {} THEN NoMatch
        ELSE IF AmountAlt1(t, i)
             THEN Matched(SubSeq(t, from, NumberEnd(t, from) - 1))
             ELSE Matched(SubSeq(t, i, NumberEnd(t, i) - 1))

\* Date commands
DateCommand(t) ==
    IF Includes(t, KwToday) THEN "today"
    ELSE IF Includes(t, KwYesterday) THEN "yesterday"
    ELSE Undefined

\* ($|\s(amount|type|account|category|date)) at index j
DescriptionStop(t, j) ==
    \/ j = Len(t) + 1
    \/ /\ j <= Len(t)
       /\ IsSpace(t[j])
       /\ \E k \in {KwAmount, KwType, KwAccount, KwCategory, KwDate} :
              StartsAt(t, k, j + 1)

\* /description (.+?)($|\s(amount|type|account|category|date))/ : the
\* leftmost match with the shortest capture; descriptionMatch[1]
DescriptionMatch(t) ==
    LET hits == {i \in 1..Len(t) :
                    /\ StartsAt(t, KwDescriptionSp, i)
                    /\ i + Len(KwDescriptionSp) <= Len(t)}
        from == Min(hits) + Len(KwDescriptionSp)
        stop == Min({j \in (from + 1)..(Len(t) + 1) : DescriptionStop(t, j)})
    IN  IF hits = {} THEN NoMatch
        ELSE Matched(SubSeq(t, from, stop - 1))

\* the first entry of list whose "<word> <name>" the transcript contains;
\* 0 if none
FirstNamed(t, word, list) ==
    LET hits == {i \in 1..Len(list) :
                    Includes(t, word \o ToLowerCase(list[i].name))}
    IN  IF hits = {} THEN 0 ELSE Min(hits)

\* Category commands
CategoryCommand(t) == FirstNamed(t, KwCategorySp, Categories)

\* Account commands
AccountCommand(t) == FirstNamed(t, KwAccountSp, Accounts)

\* Recurring commands
RecurringCommand(t) ==
    IF Includes(t, KwRecurringYes) \/ Includes(t, KwSetRecurring) THEN "yes"
    ELSE IF Includes(t, KwRecurringNo) \/ Includes(t, KwNotRecurring) THEN "no"
    ELSE Undefined

\* Recurring interval commands
IntervalCommand(t) ==
    IF Includes(t, KwDaily) THEN "DAILY"
    ELSE IF Includes(t, KwWeekly) THEN "WEEKLY"
    ELSE IF Includes(t, KwMonthly) THEN "MONTHLY"
    ELSE IF Includes(t, KwYearly) THEN "YEARLY"
    ELSE Undefined

\* Submit command
SubmitCommand(t) == Includes(t, KwSubmit) \/ Includes(t, KwSaveTransaction)

\* what the rules find in one transcript
ParseCommand(t) ==
    [type        |-> TypeCommand(t),
     amount      |-> AmountMatch(t),
     date        |-> DateCommand(t),
     description |-> DescriptionMatch(t),
     category    |-> CategoryCommand(t),
     account     |-> AccountCommand(t),
     recurring   |-> RecurringCommand(t),
     interval    |-> IntervalCommand(t),
     submit      |-> SubmitCommand(t)]

\* the setValue calls of processVoiceCommand
ApplyCommand(d, c) ==
    [type              |-> IF c.type # Undefined THEN c.type ELSE d.type,
     amount            |-> IF c.amount.matched THEN c.amount.text ELSE d.amount,
     description       |-> IF c.description.matched
                           THEN Trim(c.description.text)
                           ELSE d.description,
     accountId         |-> IF c.account # 0 THEN Accounts[c.account].id
                           ELSE d.accountId,
     category          |-> IF c.category # 0 THEN Categories[c.category].id
                           ELSE d.category,
     date              |-> IF c.date = "today" THEN Today
                           ELSE IF c.date = "yesterday" THEN Today - 1
                           ELSE d.date,
     isRecurring       |-> IF c.recurring = "yes" THEN TRUE
                           ELSE IF c.recurring = "no" THEN FALSE
                           ELSE d.isRecurring,
     recurringInterval |-> IF c.interval # Undefined THEN c.interval
                           ELSE d.recurringInterval]

IntervalWord(v) ==
    CASE v = "DAILY" -> KwDaily
      [] v = "WEEKLY" -> KwWeekly
      [] v = "MONTHLY" -> KwMonthly
      [] v = "YEARLY" -> KwYearly

\* the toast.success calls of processVoiceCommand, in order
CommandToasts(c) ==
    (IF c.type = "EXPENSE" THEN <<Plain("Set type to Expense")>>
     ELSE IF c.type = "INCOME" THEN <<Plain("Set type to Income")>>
     ELSE <<>>)
    \o (IF c.amount.matched THEN <<Msg("Set amount to ", c.amount.text)>> ELSE <<>>)
    \o (IF c.date = "today" THEN <<Plain("Set date to today")>>
        ELSE IF c.date = "yesterday" THEN <<Plain("Set date to yesterday")>>
        ELSE <<>>)
    \o (IF c.description.matched
        THEN <<Msg("Set description to ", Trim(c.description.text))>>
        ELSE <<>>)
    \o (IF c.category # 0
        THEN <<Msg("Set category to ", Categories[c.category].name)>>
        ELSE <<>>)
    \o (IF c.account # 0
        THEN <<Msg("Set account to ", Accounts[c.account].name)>>
        ELSE <<>>)
    \o (IF c.recurring = "yes" THEN <<Plain("Enabled recurring transaction")>>
        ELSE IF c.recurring = "no" THEN <<Plain("Disabled recurring transaction")>>
        ELSE <<>>)
    \o (IF c.interval # Undefined
        THEN <<Msg("Set recurring interval to ", IntervalWord(c.interval))>>
        ELSE <<>>)
    \o (IF c.submit THEN <<Plain("Submitting form...")>> ELSE <<>>)

-----------------------------------------------------------------------------
(* Transcripts the engine delivers, per specification. *)

SessionTranscripts == {T_hello, T_today}

SubmitTranscripts == {T_hello, T_submit, T_saveTransaction, T_amountSubmit}

VoiceTranscripts ==
    {T_hello, T_typeExpense, T_typeIncome, T_expenseAndIncome,
     T_incomeNotExpense, T_earningNotSpending, T_dollars, T_yesterday,
     T_yesterdayToday, T_descLunch, T_catFood, T_catSalary, T_catRent,
     T_accSavings, T_setRecurring, T_notRecurring, T_weekly, T_weeklyDaily}

Transcripts == SessionTranscripts \cup SubmitTranscripts \cup VoiceTranscripts

-----------------------------------------------------------------------------
(* The submission pipeline. *)

NoResult == [defined |-> FALSE, success |-> FALSE, accountId |-> Undefined]

\* useFetch loading: a request is in flight
TransactionLoading(cs) == cs # <<>>

\* onSubmit: formData, and transactionFn(editId, formData) or
\* transactionFn(formData)
FormData(data) == [data EXCEPT !.amount = ParseFloat(data.amount)]

OnSubmit(cs, data, em, id) ==
    Append(cs, [op      |-> IF em THEN "update" ELSE "create",
                id      |-> IF em THEN id ELSE Undefined,
                payload |-> FormData(data)])

\* handleSubmit(onSubmit)(): onSubmit runs only on values the schema accepts
HandleSubmit(cs, data, em, id) ==
    IF Valid(data) THEN OnSubmit(cs, data, em, id) ELSE cs

\* the condition of the effect on [transactionResult, transactionLoading]
SuccessCondition(result, loading) == result.success /\ ~loading

SuccessToast(em) ==
    IF em THEN Plain("Transaction updated successfully")
    ELSE Plain("Transaction created successfully")

\* the notification of a failed call
FailureToast == Plain("Transaction failed")

AccountRoute(result) == Msg("/account/", result.accountId)

Remove(s, i) == SubSeq(s, 1, i - 1) \o SubSeq(s, i + 1, Len(s))

-----------------------------------------------------------------------------
(* The recognition session (SpeechRecognition of the host).                *)
(* idle -start()-> starting -onstart-> running -stop()-> stopping -onend->  *)
(* idle; an error is always followed by the end event.                      *)

\* recognition.start(): on a session that is not idle it throws
\* InvalidStateError and changes nothing
EngineStart(e) == IF e = "idle" THEN "starting" ELSE e

StartThrows(e) == IF e = "idle" THEN Undefined ELSE "InvalidStateError"

\* recognition.stop(): no effect unless the session is starting or running
EngineStop(e) == IF e \in {"starting", "running"} THEN "stopping" ELSE e

\* the value of `recognition` in the closure of the effect's cleanup: the
\* effect runs once, in the first render, where the state still holds null
CleanupRecognition == "null"

ErrorCodes == {E_noSpeech, E_notAllowed, E_network}

-----------------------------------------------------------------------------
(* Initial states: the component after its first render and mount effect.   *)

InitForm(em, dv, id, supported) ==
    /\ editMode = em
    /\ defaultValues = dv
    /\ editId = id
    /\ mounted = TRUE
    /\ recognition = IF supported THEN "instance" ELSE "null"
    /\ engine = "idle"
    /\ isListening = FALSE
    /\ voiceStatus = IF supported THEN Plain("")
                     ELSE Plain("Speech recognition not supported by your browser")
    /\ draft = dv
    /\ calls = <<>>
    /\ transactionResult = NoResult
    /\ route = Plain("")
    /\ toasts = <<>>
    /\ thrown = Undefined

InitCreate(supported) == InitForm(FALSE, CreateDefaults, Undefined, supported)

InitEdit(supported) ==
    \E initialData \in InitialDatas :
        InitForm(TRUE, EditDefaults(initialData), initialData.id, supported)

Init == \E supported \in BOOLEAN : InitCreate(supported) \/ InitEdit(supported)

-----------------------------------------------------------------------------
(* Field edits by hand. *)

SetValue(d) ==
    /\ mounted
    /\ draft' = d
    /\ toasts' = <<>>
    /\ thrown' = Undefined
    /\ UNCHANGED <<editMode, defaultValues, editId, mounted, recognition, engine,
                   isListening, voiceStatus, calls, transactionResult, route>>

\* Select onValueChange: setValue("type", value)
SetType(v) == SetValue([draft EXCEPT !.type = v])

\* Input register("amount")
SetAmount(v) == SetValue([draft EXCEPT !.amount = v])

\* Select onValueChange: setValue("accountId", value)
SetAccount(i) == SetValue([draft EXCEPT !.accountId = Accounts[i].id])

\* Select onValueChange: setValue("category", value), over filteredCategories
SetCategory(v) ==
    /\ v \in FilteredCategories(draft.type)
    /\ SetValue([draft EXCEPT !.category = v])

\* Calendar onSelect: setValue("date", date); days after today are disabled
SetDate(day) ==
    /\ day <= Today
    /\ SetValue([draft EXCEPT !.date = day])

\* Input register("description")
SetDescription(v) == SetValue([draft EXCEPT !.description = v])

\* Switch onCheckedChange: setValue("isRecurring", checked)
SetRecurring == SetValue([draft EXCEPT !.isRecurring = ~draft.isRecurring])

\* Select onValueChange: setValue("recurringInterval", value); the select is
\* rendered only while isRecurring
SetInterval(v) ==
    /\ draft.isRecurring
    /\ SetValue([draft EXCEPT !.recurringInterval = v])

-----------------------------------------------------------------------------
(* The receipt-scan bridge. *)

NullScan ==
    [null |-> TRUE, amount |-> NaN, date |-> "", description |-> <<>>,
     category |-> ""]

Scan(amount, date, description, category) ==
    [null |-> FALSE, amount |-> amount, date |-> date,
     description |-> description, category |-> category]

\* handleScanComplete without the two `if`s: description and category are
\* overwritten with whatever the result holds
ApplyScanOverwriteAll(d, scannedData) ==
    IF scannedData.null THEN d
    ELSE [d EXCEPT
            !.amount      = NumToString(scannedData.amount),
            !.date        = ParseDate(scannedData.date),
            !.description = scannedData.description,
            !.category    = scannedData.category]

\* the setValue calls of handleScanComplete
ApplyScan(d, scannedData) ==
    IF scannedData.null THEN d
    ELSE [d EXCEPT
            !.amount      = NumToString(scannedData.amount),
            !.date        = ParseDate(scannedData.date),
            !.description = IF scannedData.description # <<>>
                            THEN scannedData.description ELSE @,
            !.category    = IF Truthy(scannedData.category)
                            THEN scannedData.category ELSE @]

ScanToasts(scannedData) ==
    IF scannedData.null THEN <<>>
    ELSE <<Plain("Receipt scanned successfully")>>

\* ReceiptScanner onScanComplete; the scanner is rendered in create mode only
HandleScanComplete(scannedData) ==
    /\ mounted
    /\ ~editMode
    /\ draft' = ApplyScan(draft, scannedData)
    /\ toasts' = ScanToasts(scannedData)
    /\ thrown' = Undefined
    /\ UNCHANGED <<editMode, defaultValues, editId, mounted, recognition, engine,
                   isListening, voiceStatus, calls, transactionResult, route>>

-----------------------------------------------------------------------------
(* Submission. *)

\* a submit Button that is never disabled
SubmitNeverDisabled(cs) == FALSE

\* the submit Button's disabled={transactionLoading}
SubmitDisabled(cs) == TransactionLoading(cs)

\* a click on the submit Button: form onSubmit={handleSubmit(onSubmit)}; a
\* click on the disabled control submits nothing
SubmitClick ==
    /\ mounted
    /\ calls' = IF SubmitDisabled(calls) THEN calls
                ELSE HandleSubmit(calls, draft, editMode, editId)
    /\ toasts' = <<>>
    /\ thrown' = Undefined
    /\ UNCHANGED <<editMode, defaultValues, editId, mounted, recognition, engine,
                   isListening, voiceStatus, draft, transactionResult, route>>

\* the effect on [transactionResult, transactionLoading], run after a render
\* in which one of the two changed
RunEffect(changed, result, cs, before) ==
    IF changed /\ SuccessCondition(result, TransactionLoading(cs))
    THEN /\ toasts' = before \o <<SuccessToast(editMode)>>
         /\ draft' = defaultValues
         /\ route' = AccountRoute(result)
    ELSE /\ toasts' = before
         /\ UNCHANGED <<draft, route>>

\* the call in flight at index i resolves with { success: true, data }
ResolveSuccess(i) ==
    /\ mounted
    /\ i \in 1..Len(calls)
    /\ calls' = Remove(calls, i)
    /\ transactionResult' =
           [defined |-> TRUE, success |-> TRUE,
            accountId |-> calls[i].payload.accountId]
    /\ RunEffect(TRUE, transactionResult', calls', <<>>)
    /\ thrown' = Undefined
    /\ UNCHANGED <<editMode, defaultValues, editId, mounted, recognition, engine,
                   isListening, voiceStatus>>

\* the call in flight at index i fails: data keeps the last result
ResolveFailure(i) ==
    /\ mounted
    /\ i \in 1..Len(calls)
    /\ calls' = Remove(calls, i)
    /\ transactionResult' = transactionResult
    /\ RunEffect(TransactionLoading(calls') # TransactionLoading(calls),
                 transactionResult', calls', <<FailureToast>>)
    /\ thrown' = Undefined
    /\ UNCHANGED <<editMode, defaultValues, editId, mounted, recognition, engine,
                   isListening, voiceStatus>>

-----------------------------------------------------------------------------
(* The voice command interpreter. *)

Result(transcript, isFinal) == [transcript |-> transcript, isFinal |-> isFinal]

\* toggleListening
ToggleListening ==
    /\ mounted
    /\ engine' = IF recognition = "null" THEN engine
                 ELSE IF isListening THEN EngineStop(engine)
                 ELSE EngineStart(engine)
    /\ thrown' = IF recognition = "instance" /\ ~isListening
                 THEN StartThrows(engine) ELSE Undefined
    /\ toasts' = <<>>
    /\ UNCHANGED <<editMode, defaultValues, editId, mounted, recognition,
                   isListening, voiceStatus, draft, calls, transactionResult,
                   route>>

\* recognitionInstance.onstart
OnStart ==
    /\ mounted
    /\ engine = "starting"
    /\ engine' = "running"
    /\ voiceStatus' = Plain("Listening...")
    /\ isListening' = TRUE
    /\ toasts' = <<>>
    /\ thrown' = Undefined
    /\ UNCHANGED <<editMode, defaultValues, editId, mounted, recognition, draft,
                   calls, transactionResult, route>>

\* recognitionInstance.onend
OnEnd ==
    /\ mounted
    /\ engine \in {"running", "stopping", "errored"}
    /\ engine' = "idle"
    /\ voiceStatus' = Plain("")
    /\ isListening' = FALSE
    /\ toasts' = <<>>
    /\ thrown' = Undefined
    /\ UNCHANGED <<editMode, defaultValues, editId, mounted, recognition, draft,
                   calls, transactionResult, route>>

\* recognitionInstance.onerror
OnError(code) ==
    /\ mounted
    /\ engine \in {"starting", "running"}
    /\ engine' = "errored"
    /\ voiceStatus' = Msg("Error: ", code)
    /\ isListening' = FALSE
    /\ toasts' = <<>>
    /\ thrown' = Undefined
    /\ UNCHANGED <<editMode, defaultValues, editId, mounted, recognition, draft,
                   calls, transactionResult, route>>

\* each transcript the engine may deliver: lower-cased, and what
\* processVoiceCommand finds in it
Heard ==
    [x \in Transcripts |->
        LET t == ToLowerCase(x)
        IN  [transcript |-> t, command |-> ParseCommand(t)]]

\* recognitionInstance.onresult with processVoiceCommand: the transcript of
\* the latest result, whether it is final or interim
OnResult(result) ==
    LET transcript == Heard[result.transcript].transcript
        command    == Heard[result.transcript].command
        submitted  == HandleSubmit(calls, draft', editMode, editId)
    IN  /\ mounted
        /\ engine \in {"running", "stopping"}
        /\ voiceStatus' = Msg("I heard: ", transcript)
        /\ draft' = ApplyCommand(draft, command)
        /\ calls' = IF command.submit THEN submitted ELSE calls
        /\ Len(calls') <= MaxInFlight
        /\ toasts' = CommandToasts(command)
        /\ thrown' = Undefined
        /\ UNCHANGED <<editMode, defaultValues, editId, mounted, recognition,
                       engine, isListening, transactionResult, route>>

\* the cleanup of the speech-recognition effect, on unmount
Unmount ==
    /\ mounted
    /\ mounted' = FALSE
    /\ engine' = IF CleanupRecognition = "null" THEN engine
                 ELSE EngineStop(engine)
    /\ UNCHANGED <<editMode, defaultValues, editId, recognition, isListening,
                   voiceStatus, draft, calls, transactionResult, route, toasts,
                   thrown>>

-----------------------------------------------------------------------------
(* Inputs of the events. *)

Results(S) == {Result(t, f) : t \in S, f \in BOOLEAN}

ScanResults ==
    {NullScan,
     Scan(Num(12, <<"5">>), "2024-01-01", <<>>, ""),
     Scan(Num(50, <<>>), "2024-01-01", D_coffee, "food")}

Amounts == {<<>>, A_50}

Descriptions == {<<>>, D_lunch}

Days == {Today - 1, Today, Today + 1}

-----------------------------------------------------------------------------
(* Specifications. *)

\* the session's life: toggles, engine events, teardown
NextSession ==
    \/ ToggleListening
    \/ OnStart
    \/ OnEnd
    \/ \E code \in ErrorCodes : OnError(code)
    \/ \E r \in Results(SessionTranscripts) : OnResult(r)
    \/ Unmount

SpecSession == Init /\ [][NextSession]_vars

\* a create form whose session has been started and is listening
InitListening ==
    /\ editMode = FALSE
    /\ defaultValues = CreateDefaults
    /\ editId = Undefined
    /\ mounted = TRUE
    /\ recognition = "instance"
    /\ engine = "running"
    /\ isListening = TRUE
    /\ voiceStatus = Plain("Listening...")
    /\ draft = CreateDefaults
    /\ calls = <<>>
    /\ transactionResult = NoResult
    /\ route = Plain("")
    /\ toasts = <<>>
    /\ thrown = Undefined

\* the draft under voice commands and the edits by hand of the same fields
NextVoice ==
    \/ \E v \in Types : SetType(v)
    \/ \E i \in 1..Len(Categories) : SetCategory(Categories[i].id)
    \/ SetRecurring
    \/ \E v \in Intervals : SetInterval(v)
    \/ \E r \in Results(VoiceTranscripts) : OnResult(r)

SpecVoice == InitListening /\ [][NextVoice]_vars

\* the draft of a create form under receipt scans and edits by hand
NextScan ==
    \/ \E v \in Types : SetType(v)
    \/ \E v \in Amounts : SetAmount(v)
    \/ \E i \in 1..Len(Accounts) : SetAccount(i)
    \/ \E i \in 1..Len(Categories) : SetCategory(Categories[i].id)
    \/ \E day \in Days : SetDate(day)
    \/ \E v \in Descriptions : SetDescription(v)
    \/ SetRecurring
    \/ \E v \in Intervals : SetInterval(v)
    \/ \E r \in ScanResults : HandleScanComplete(r)

SpecScan == InitCreate(TRUE) /\ [][NextScan]_vars

\* submissions by the control and by voice, and their outcomes
NextSubmit ==
    \/ SetAmount(A_50)
    \/ \E i \in 1..Len(Categories) : SetCategory(Categories[i].id)
    \/ SubmitClick
    \/ \E i \in 1..MaxInFlight : ResolveSuccess(i)
    \/ \E i \in 1..MaxInFlight : ResolveFailure(i)
    \/ ToggleListening
    \/ OnStart
    \/ \E r \in Results(SubmitTranscripts) : OnResult(r)

SpecSubmit == Init /\ [][NextSubmit]_vars

-----------------------------------------------------------------------------
(* Claims. *)

\* C1: a result event whose latest result is interim changes no draft field
\* and does not invoke the submission pipeline.
C1_InterimResultIgnored ==
    [][\A r \in Results(SubmitTranscripts) :
          (~r.isFinal /\ OnResult(r)) => (draft' = draft /\ calls' = calls)]_vars

\* C2: once the component is unmounted, a session created at mount has been
\* told to stop: it is not left starting or listening.
C2_SessionReleasedOnUnmount ==
    (~mounted /\ recognition = "instance") => engine \notin {"starting", "running"}

\* C3: recurringInterval is present only when isRecurring is true.
C3_IntervalOnlyWhenRecurring ==
    draft.recurringInterval # Undefined => draft.isRecurring

\* C4: a set category belongs to the categories of the draft's current type.
C4_CategoryMatchesType ==
    draft.category # Undefined => draft.category \in FilteredCategories(draft.type)

\* C5: the toggle calls start() only on an idle session and stop() only on a
\* session that is not idle.
C5_ToggleNeverRestarts ==
    [][(ToggleListening /\ recognition = "instance") =>
          IF isListening THEN engine # "idle" ELSE engine = "idle"]_vars

SuccessShown(ts) == \E k \in 1..Len(ts) : ts[k] = SuccessToast(editMode)

\* C6: the success notification, the reset and the navigation happen only in
\* the step in which a call resolves successfully and no call is left
\* pending, and a failing call leaves every draft field and the route as
\* they were.
C6_SuccessEffectsOnlyOnSuccess ==
    [][/\ SuccessShown(toasts') =>
             /\ \E i \in 1..Len(calls) : ResolveSuccess(i)
             /\ calls' = <<>>
       /\ \A i \in 1..Len(calls) :
             ResolveFailure(i) =>
                 /\ draft' = draft
                 /\ route' = route
                 /\ ~SuccessShown(toasts')]_vars

\* C7: an engine error sets the interpreter Idle with the error code as the
\* status text, and the end event that follows the error leaves that text.
C7_ErrorCodeStaysVisible ==
    [][/\ \A code \in ErrorCodes :
             OnError(code) => (~isListening' /\ voiceStatus' = Msg("Error: ", code))
       /\ (engine = "errored" /\ OnEnd) => voiceStatus' = voiceStatus]_vars

\* C8: while a call is in flight a click on the submit control dispatches
\* nothing, and a voice transcript with a submit phrase on a draft the schema
\* accepts dispatches one more call, with the draft's values.
C8_OnlyTheControlGuards ==
    [][/\ (SubmitClick /\ calls # <<>>) => calls' = calls
       /\ \A r \in Results(SubmitTranscripts) :
             ( /\ OnResult(r)
               /\ calls # <<>>
               /\ Heard[r.transcript].command.submit
               /\ Valid(draft') ) =>
                 /\ Len(calls') = Len(calls) + 1
                 /\ SubSeq(calls', 1, Len(calls)) = calls
                 /\ calls'[Len(calls')].payload = FormData(draft')]_vars

\* C8 witness: a voice "submit" has put a second call in flight.
C8_SecondCallInFlight ==
    /\ Len(calls) = 2
    /\ voiceStatus = Msg("I heard: ", KwSubmit)
    /\ toasts = <<Plain("Submitting form...")>>

\* C9: a scan result overwrites amount and date, overwrites description and
\* category only when it carries them, leaves type, accountId, isRecurring
\* and recurringInterval alone and raises one notification; a null result
\* changes no field and raises none.
C9_ScanOverwritesAmountAndDate ==
    [][\A r \in ScanResults :
          HandleScanComplete(r) =>
              IF r.null
              THEN draft' = draft /\ toasts' = <<>>
              ELSE /\ draft'.amount = NumToString(r.amount)
                   /\ draft'.date = ParseDate(r.date)
                   /\ draft'.description =
                          IF r.description = <<>> THEN draft.description
                          ELSE r.description
                   /\ draft'.category =
                          IF r.category = "" THEN draft.category
                          ELSE r.category
                   /\ draft'.type = draft.type
                   /\ draft'.accountId = draft.accountId
                   /\ draft'.isRecurring = draft.isRecurring
                   /\ draft'.recurringInterval = draft.recurringInterval
                   /\ toasts' = <<Plain("Receipt scanned successfully")>>]_vars

\* C9 witness: the scan of {amount: 12.5, date: "2024-01-01"} has run on a
\* draft that had a description and a category, and both are still there.
C9_ScanKeptDescription ==
    /\ toasts = <<Plain("Receipt scanned successfully")>>
    /\ draft.amount = A_12_5
    /\ draft.date = 1
    /\ draft.description = D_lunch
    /\ draft.category = "salary"
    /\ draft.isRecurring
    /\ draft.recurringInterval = "MONTHLY"

\* the type keywords each transcript contains once lower-cased
TypeWords ==
    [x \in Transcripts |->
        LET t == Heard[x].transcript
        IN  [expense |-> Includes(t, KwExpense) \/ Includes(t, KwSpending),
             income  |-> Includes(t, KwIncome) \/ Includes(t, KwEarning)]]

\* C10 as stated: an income keyword sets INCOME even when an expense keyword
\* is present too; an expense keyword alone sets EXPENSE.
C10_IncomeWinsWhenBoth ==
    [][\A x \in VoiceTranscripts :
          OnResult(Result(x, TRUE)) =>
              /\ TypeWords[x].income => draft'.type = "INCOME"
              /\ (TypeWords[x].expense /\ ~TypeWords[x].income) =>
                     draft'.type = "EXPENSE"]_vars

\* C10 amended: an expense keyword sets EXPENSE even when an income keyword
\* is present too (the income check is the else branch); an income keyword
\* alone sets INCOME; with neither the type is left alone.
C10_ExpenseWinsWhenBoth ==
    [][\A x \in VoiceTranscripts :
          OnResult(Result(x, TRUE)) =>
              /\ TypeWords[x].expense => draft'.type = "EXPENSE"
              /\ (TypeWords[x].income /\ ~TypeWords[x].expense) =>
                     draft'.type = "INCOME"
              /\ (~TypeWords[x].income /\ ~TypeWords[x].expense) =>
                     draft'.type = draft.type]_vars

\* C10 witness: "Income not expense" was heard on a draft and the type is
\* EXPENSE.
C10_BothHeardTypeExpense ==
    /\ voiceStatus = Msg("I heard: ", ToLowerCase(T_incomeNotExpense))
    /\ toasts = <<Plain("Set type to Expense")>>
    /\ draft.type = "EXPENSE"
====
